---- MODULE Spec2Model ----
(***************************************************************************)
(* Model of src/main.py: the Board state machine of the slide puzzle       *)
(* (tiles, blank_xy, get_valid_moves, move_tile, shuffle, is_game_won) and *)
(* the Game control flow that drives it (intro, event_get, update, render, *)
(* game_over, main).                                                       *)
(*                                                                         *)
(* The grid side and the minimum shuffle length are instantiated smaller   *)
(* than in the source (3 and 10 instead of 4 and 40) so that the reachable *)
(* layouts can be enumerated; every definition below is written for an     *)
(* arbitrary TILES_PER_SIDE and SHUFFLE.                                   *)
(***************************************************************************)
EXTENDS Integers, Sequences, FiniteSets, TLC

\* ------------------------------------------------------------------ constants
TILES_PER_SIDE == 3
SHUFFLE == 10

\* ------------------------------------------------------------------ bounds
\* cap on the shuffle's move counter (the loop of the source is unbounded)
MaxMoves == 12
\* cap on the number of iterations of main's while loop on one board
MaxTicks == 2
\* longest batch of events one pg.event.get() call returns
MaxBatch == 2
\* size in pixels of the puzzle image (img/01.png), which sets the window
ImageWidth == 7
ImageHeight == 6

\* ------------------------------------------------------------------ state
VARIABLES
    shuffle_min,        \* the configured SHUFFLE: set at start, never assigned
    tiles,              \* Board.tiles: (col,row) -> tile identifier
    blank_xy,           \* Board.blank_xy
    previous_blank_xy,  \* local of Board.shuffle
    moves_nb,           \* local of Board.shuffle
    pc,                 \* position in main / Game / Board code
    running,            \* Game.running
    do_render,          \* Game.do_render
    command,            \* Game.command
    game_won,           \* Game.game_won
    quit_fetched,       \* history: the batch event_get last fetched held a
                        \* QUIT or an ESCAPE key press
    ticks               \* iterations of main's while loop on the current board

vars == <<shuffle_min, tiles, blank_xy, previous_blank_xy, moves_nb, pc, running,
          do_render, command, game_won, quit_fetched, ticks>>

board_vars == <<tiles, blank_xy>>
shuffle_locals == <<previous_blank_xy, moves_nb>>
game_flags == <<running, do_render, command, game_won>>

\* Python's None
None == <<>>

Positions == (0 .. TILES_PER_SIDE - 1) \X (0 .. TILES_PER_SIDE - 1)
BLANK == TILES_PER_SIDE * TILES_PER_SIDE - 1
Corner == <<TILES_PER_SIDE - 1, TILES_PER_SIDE - 1>>

\* ------------------------------------------------------------------ Board
\* the layout built by Board.__init__ before shuffling
InitialTiles == [xy \in Positions |-> xy[2] * TILES_PER_SIDE + xy[1]]

\* Python's `x in list`
InList(x, list) == \E i \in 1 .. Len(list) : list[i] = x

\* Python's list.index(x): the first index holding x (1-based here)
Index(list, x) ==
    CHOOSE i \in 1 .. Len(list) :
        list[i] = x /\ \A j \in 1 .. i - 1 : list[j] # x

\* Python's list.pop(i) as the list left behind
Pop(list, i) == SubSeq(list, 1, i - 1) \o SubSeq(list, i + 1, Len(list))

\* get_valid_moves with the right-hand bound test written <= instead of <
get_valid_moves_off_by_one(b) ==
    (IF b[1] - 1 >= 0 THEN << <<b[1] - 1, b[2]>> >> ELSE <<>>)
    \o (IF b[1] + 1 <= TILES_PER_SIDE THEN << <<b[1] + 1, b[2]>> >> ELSE <<>>)
    \o (IF b[2] - 1 >= 0 THEN << <<b[1], b[2] - 1>> >> ELSE <<>>)
    \o (IF b[2] + 1 < TILES_PER_SIDE THEN << <<b[1], b[2] + 1>> >> ELSE <<>>)

\* get_valid_moves whose third entry also changes the column: a diagonal cell
get_valid_moves_diagonal(b) ==
    (IF b[1] - 1 >= 0 THEN << <<b[1] - 1, b[2]>> >> ELSE <<>>)
    \o (IF b[1] + 1 < TILES_PER_SIDE THEN << <<b[1] + 1, b[2]>> >> ELSE <<>>)
    \o (IF b[2] - 1 >= 0 /\ b[1] - 1 >= 0
        THEN << <<b[1] - 1, b[2] - 1>> >> ELSE <<>>)
    \o (IF b[2] + 1 < TILES_PER_SIDE THEN << <<b[1], b[2] + 1>> >> ELSE <<>>)

\* get_valid_moves whose last test looks one row too far, so that the cell
\* below the blank is left out on the last but one row
get_valid_moves_no_down(b) ==
    (IF b[1] - 1 >= 0 THEN << <<b[1] - 1, b[2]>> >> ELSE <<>>)
    \o (IF b[1] + 1 < TILES_PER_SIDE THEN << <<b[1] + 1, b[2]>> >> ELSE <<>>)
    \o (IF b[2] - 1 >= 0 THEN << <<b[1], b[2] - 1>> >> ELSE <<>>)
    \o (IF b[2] + 2 < TILES_PER_SIDE THEN << <<b[1], b[2] + 1>> >> ELSE <<>>)

get_valid_moves(b) ==
    (IF b[1] - 1 >= 0 THEN << <<b[1] - 1, b[2]>> >> ELSE <<>>)
    \o (IF b[1] + 1 < TILES_PER_SIDE THEN << <<b[1] + 1, b[2]>> >> ELSE <<>>)
    \o (IF b[2] - 1 >= 0 THEN << <<b[1], b[2] - 1>> >> ELSE <<>>)
    \o (IF b[2] + 1 < TILES_PER_SIDE THEN << <<b[1], b[2] + 1>> >> ELSE <<>>)

\* move_tile without its third line, tiles[blank_xy] = tile
move_tile_drops_tile(t, b, xy) ==
    [tiles |-> [t EXCEPT ![xy] = BLANK], blank_xy |-> xy]

\* move_tile without its last line, blank_xy = xy
move_tile_blank_stays(t, b, xy) ==
    LET tile == t[xy]
        t1 == [t EXCEPT ![xy] = BLANK]
        t2 == [t1 EXCEPT ![b] = tile]
    IN  [tiles |-> t2, blank_xy |-> b]

\* move_tile putting the tile back at the blank's position with col and row
\* exchanged
move_tile_transposed(t, b, xy) ==
    LET tile == t[xy]
        t1 == [t EXCEPT ![xy] = BLANK]
        t2 == [t1 EXCEPT ![<<b[2], b[1]>>] = tile]
    IN  [tiles |-> t2, blank_xy |-> xy]

\* the three assignments of move_tile, in the order of the source
move_tile(t, b, xy) ==
    LET tile == t[xy]
        t1 == [t EXCEPT ![xy] = BLANK]
        t2 == [t1 EXCEPT ![b] = tile]
    IN  [tiles |-> t2, blank_xy |-> xy]

\* the nested loops of is_game_won, col outer and row inner, k = col*N + row
RECURSIVE is_game_won_from(_, _)
is_game_won_from(t, k) ==
    IF k = TILES_PER_SIDE * TILES_PER_SIDE THEN TRUE
    ELSE LET col == k \div TILES_PER_SIDE
             row == k % TILES_PER_SIDE
         IN  IF t[<<col, row>>] # (row * TILES_PER_SIDE) + col THEN FALSE
             ELSE is_game_won_from(t, k + 1)

\* is_game_won with the inner loop over range(TILES_PER_SIDE - 1): the last
\* row is never looked at
is_game_won_short_rows(t) ==
    \A xy \in Positions :
        xy[2] < TILES_PER_SIDE - 1 => t[xy] = (xy[2] * TILES_PER_SIDE) + xy[1]

is_game_won(t) == is_game_won_from(t, 0)

\* the loop condition with `and` in the place of `or`
shuffle_continues_and(m, b) == m < shuffle_min /\ b # Corner

\* the loop condition with the counter tested with <= instead of <
shuffle_continues_le(m, b) == m <= shuffle_min \/ b # Corner

\* the loop condition of shuffle
shuffle_continues(m, b) == m < shuffle_min \/ b # Corner

\* the candidates without the removal of the blank's previous position
shuffle_candidates_keeps_previous(b, prev) == get_valid_moves(b)

\* the candidates cut at the blank's previous position instead of having it
\* popped: what comes after it in the list is lost too
shuffle_candidates_cut(b, prev) ==
    LET valid_moves == get_valid_moves(b)
    IN  IF InList(prev, valid_moves)
        THEN SubSeq(valid_moves, 1, Index(valid_moves, prev) - 1)
        ELSE valid_moves

\* the candidates of one shuffle iteration: the valid moves without the
\* blank's previous position
shuffle_candidates(b, prev) ==
    LET valid_moves == get_valid_moves(b)
    IN  IF InList(prev, valid_moves)
        THEN Pop(valid_moves, Index(valid_moves, prev))
        ELSE valid_moves

\* ------------------------------------------------------------------ events
EventTypes == {"QUIT", "ESCAPE", "KEYDOWN", "MOUSEBUTTONDOWN"}

Batches == UNION {[1 .. n -> EventTypes] : n \in 0 .. MaxBatch}

tile_width == ImageWidth \div TILES_PER_SIDE
tile_height == ImageHeight \div TILES_PER_SIDE

MousePositions == (0 .. ImageWidth - 1) \X (0 .. ImageHeight - 1)

\* Game.event_get: the for loop over the batch, returning at the first
\* QUIT, ESCAPE key or mouse click; falling off the end returns None
RECURSIVE event_get(_, _, _, _)
event_get(batch, i, mouse, run) ==
    IF i > Len(batch) THEN [running |-> run, result |-> None]
    ELSE IF batch[i] = "QUIT" THEN [running |-> FALSE, result |-> None]
    ELSE IF batch[i] = "ESCAPE" THEN [running |-> FALSE, result |-> None]
    ELSE IF batch[i] = "MOUSEBUTTONDOWN"
         THEN [running |-> run,
               result |-> <<mouse[1] \div tile_width, mouse[2] \div tile_height>>]
    ELSE event_get(batch, i + 1, mouse, run)

\* the body of shuffle's while loop: the states one iteration can lead to,
\* one for each candidate random.choice can return
shuffle_iteration(t, b, prev, m) ==
    LET valid_moves == shuffle_candidates(b, prev)
    IN  {[tiles |-> move_tile(t, b, valid_moves[i]).tiles,
          blank_xy |-> move_tile(t, b, valid_moves[i]).blank_xy,
          previous_blank_xy |-> b,
          moves_nb |-> m + 1] : i \in 1 .. Len(valid_moves)}

\* shuffle run to its end from the state given: the boards it can return
\* with at most MaxMoves moves
RECURSIVE shuffle(_, _, _, _)
shuffle(t, b, prev, m) ==
    IF ~shuffle_continues(m, b) THEN {[tiles |-> t, blank_xy |-> b]}
    ELSE IF m >= MaxMoves THEN {}
    ELSE UNION {shuffle(s.tiles, s.blank_xy, s.previous_blank_xy, s.moves_nb) :
                    s \in shuffle_iteration(t, b, prev, m)}

\* Board(): the boards the constructor can return
Board == shuffle(InitialTiles, Corner, Corner, 0)

\* the for loop of game_over without the line game_won = False
RECURSIVE game_over_events_keeps_won(_, _, _)
game_over_events_keeps_won(batch, i, st) ==
    IF i > Len(batch) THEN st
    ELSE LET s1 == IF batch[i] = "QUIT"
                   THEN [st EXCEPT !.do_render = FALSE, !.running = FALSE,
                                   !.waiting = FALSE]
                   ELSE st
             s2 == IF batch[i] = "MOUSEBUTTONDOWN"
                   THEN [s1 EXCEPT !.new_board = TRUE, !.waiting = FALSE]
                   ELSE s1
         IN  game_over_events_keeps_won(batch, i + 1, s2)

\* Game.game_over: the for loop over one batch. new_board records that
\* self.board was assigned a Board() in this batch
RECURSIVE game_over_events(_, _, _)
game_over_events(batch, i, st) ==
    IF i > Len(batch) THEN st
    ELSE LET s1 == IF batch[i] = "QUIT"
                   THEN [st EXCEPT !.do_render = FALSE, !.running = FALSE,
                                   !.waiting = FALSE]
                   ELSE st
             s2 == IF batch[i] = "MOUSEBUTTONDOWN"
                   THEN [s1 EXCEPT !.new_board = TRUE, !.game_won = FALSE,
                                   !.waiting = FALSE]
                   ELSE s1
         IN  game_over_events(batch, i + 1, s2)

\* the batch holds a request to quit: a QUIT or an ESCAPE key press
holds_quit(batch) == InList("QUIT", batch) \/ InList("ESCAPE", batch)

\* what event_get can do in main's loop, where it is called with running
\* true: one outcome for each batch and mouse position, with whether the
\* batch held a request to quit
event_get_results ==
    {[quit |-> holds_quit(batch), call |-> event_get(batch, 1, mouse, TRUE)] :
        batch \in Batches, mouse \in MousePositions}

\* ------------------------------------------------------------------ actions
\* Game.__init__ has called Board(): the fresh layout of Board.__init__ and
\* the first two lines of shuffle
Init ==
    /\ shuffle_min = SHUFFLE
    /\ tiles = InitialTiles
    /\ blank_xy = Corner
    /\ previous_blank_xy = Corner
    /\ moves_nb = 0
    /\ pc = "shuffle"
    /\ running = TRUE
    /\ do_render = TRUE
    /\ command = None
    /\ game_won = FALSE
    /\ quit_fetched = FALSE
    /\ ticks = 0

\* one iteration of the while loop of shuffle
ShuffleStep ==
    /\ pc = "shuffle"
    /\ shuffle_continues(moves_nb, blank_xy)
    /\ moves_nb < MaxMoves
    /\ IF shuffle_candidates(blank_xy, previous_blank_xy) = <<>>
       THEN \* random.choice raises IndexError
            /\ pc' = "IndexError"
            /\ UNCHANGED <<board_vars, shuffle_locals>>
       ELSE \E s \in shuffle_iteration(tiles, blank_xy, previous_blank_xy, moves_nb) :
                /\ tiles' = s.tiles
                /\ blank_xy' = s.blank_xy
                /\ previous_blank_xy' = s.previous_blank_xy
                /\ moves_nb' = s.moves_nb
                /\ pc' = "shuffle"
    /\ UNCHANGED <<shuffle_min, quit_fetched, game_flags, ticks>>

\* the loop condition is false: shuffle and Board() return
ShuffleReturn ==
    /\ pc = "shuffle"
    /\ ~shuffle_continues(moves_nb, blank_xy)
    /\ pc' = "board_ready"
    /\ UNCHANGED <<shuffle_min, quit_fetched, board_vars, shuffle_locals, game_flags, ticks>>

\* the rest of Game.__init__ after Board(); the locals of shuffle are gone
GameInit ==
    /\ pc = "board_ready"
    /\ running' = TRUE
    /\ do_render' = TRUE
    /\ command' = None
    /\ game_won' = FALSE
    /\ previous_blank_xy' = None
    /\ moves_nb' = 0
    /\ pc' = "intro"
    /\ UNCHANGED <<shuffle_min, quit_fetched, board_vars, ticks>>

\* Game.intro: batches are fetched until one holds a QUIT or a click; the
\* whole batch is iterated over
Intro ==
    /\ pc = "intro"
    /\ \E batch \in Batches :
        IF InList("QUIT", batch) \/ InList("MOUSEBUTTONDOWN", batch)
        THEN /\ running' = (running /\ ~InList("QUIT", batch))
             /\ pc' = "event_get"
        ELSE UNCHANGED <<running, pc>>
    /\ UNCHANGED <<shuffle_min, quit_fetched, board_vars, shuffle_locals, do_render, command,
                   game_won, ticks>>

\* main: the loop test holds, game.command = game.event_get()
EventGet ==
    /\ pc = "event_get"
    /\ running
    /\ ticks < MaxTicks
    /\ \E r \in event_get_results :
        /\ running' = r.call.running
        /\ command' = r.call.result
        /\ quit_fetched' = r.quit
    /\ ticks' = ticks + 1
    /\ pc' = "update"
    /\ UNCHANGED <<shuffle_min, board_vars, shuffle_locals, do_render, game_won>>

\* update asking is_game_won() before the move is applied
UpdateChecksFirst ==
    /\ pc = "update"
    /\ IF InList(command, get_valid_moves(blank_xy))
       THEN /\ tiles' = move_tile(tiles, blank_xy, command).tiles
            /\ blank_xy' = move_tile(tiles, blank_xy, command).blank_xy
       ELSE UNCHANGED board_vars
    /\ game_won' = (IF is_game_won(tiles) THEN TRUE ELSE game_won)
    /\ pc' = "render"
    /\ UNCHANGED <<shuffle_min, quit_fetched, shuffle_locals, running, do_render,
                   command, ticks>>

\* update applying every click that falls on the grid
UpdateAnyCell ==
    /\ pc = "update"
    /\ IF command \in Positions
       THEN /\ tiles' = move_tile(tiles, blank_xy, command).tiles
            /\ blank_xy' = move_tile(tiles, blank_xy, command).blank_xy
       ELSE UNCHANGED board_vars
    /\ game_won' = (IF is_game_won(tiles') THEN TRUE ELSE game_won)
    /\ pc' = "render"
    /\ UNCHANGED <<shuffle_min, quit_fetched, shuffle_locals, running, do_render, command, ticks>>

\* Game.update
Update ==
    /\ pc = "update"
    /\ IF InList(command, get_valid_moves(blank_xy))
       THEN /\ tiles' = move_tile(tiles, blank_xy, command).tiles
            /\ blank_xy' = move_tile(tiles, blank_xy, command).blank_xy
       ELSE UNCHANGED board_vars
    /\ game_won' = (IF is_game_won(tiles') THEN TRUE ELSE game_won)
    /\ pc' = "render"
    /\ UNCHANGED <<shuffle_min, quit_fetched, shuffle_locals, running, do_render, command, ticks>>

\* Game.render, then fps_clock.tick: drawing reads the board only; with
\* game_won set, render calls game_over
Render ==
    /\ pc = "render"
    /\ pc' = (IF game_won THEN "game_over" ELSE "event_get")
    /\ UNCHANGED <<shuffle_min, quit_fetched, board_vars, shuffle_locals, game_flags, ticks>>

\* Game.game_over: one pass of the while loop, the for loop over one batch.
\* Each click constructs a Board from scratch, so the board left is the one
\* the last click constructed
GameOver ==
    /\ pc = "game_over"
    /\ LET boards == Board
       IN  \E batch \in Batches :
            LET st == game_over_events(batch, 1,
                        [do_render |-> do_render, running |-> running,
                         game_won |-> game_won, waiting |-> TRUE,
                         new_board |-> FALSE])
            IN  /\ do_render' = st.do_render
                /\ running' = st.running
                /\ game_won' = st.game_won
                /\ IF st.new_board
                   THEN /\ \E b \in boards :
                            /\ tiles' = b.tiles
                            /\ blank_xy' = b.blank_xy
                        /\ ticks' = 0
                   ELSE UNCHANGED <<board_vars, ticks>>
                /\ pc' = (IF st.waiting THEN "game_over" ELSE "event_get")
    /\ UNCHANGED <<shuffle_min, quit_fetched, shuffle_locals, command>>

\* main: the loop test fails, game.exit()
Exit ==
    /\ pc = "event_get"
    /\ ~running
    /\ pc' = "exit"
    /\ UNCHANGED <<shuffle_min, quit_fetched, board_vars, shuffle_locals, game_flags, ticks>>

Next ==
    \/ ShuffleStep
    \/ ShuffleReturn
    \/ GameInit
    \/ Intro
    \/ EventGet
    \/ Update
    \/ Render
    \/ GameOver
    \/ Exit

Spec == Init /\ [][Next]_vars

\* ------------------------------------------------------------------ shuffle under every minimum
\* Board() alone, with SHUFFLE configured to any value from 0 to the
\* reference value of this model
InitShuffle ==
    /\ shuffle_min \in 0 .. SHUFFLE
    /\ tiles = InitialTiles
    /\ blank_xy = Corner
    /\ previous_blank_xy = Corner
    /\ moves_nb = 0
    /\ pc = "shuffle"
    /\ running = TRUE
    /\ do_render = TRUE
    /\ command = None
    /\ game_won = FALSE
    /\ quit_fetched = FALSE
    /\ ticks = 0

NextShuffle ==
    \/ ShuffleStep
    \/ ShuffleReturn

SpecShuffle == InitShuffle /\ [][NextShuffle]_vars

\* ------------------------------------------------------------------ win detection on arbitrary layouts
\* cap on the number of exchanges of two positions applied to the solved
\* layout to obtain the layouts is_game_won is tried on
MaxSwaps == 2

\* t with the tiles of positions p and q exchanged
Exchange(t, p, q) == [t EXCEPT ![p] = t[q], ![q] = t[p]]

RECURSIVE Exchanged(_)
Exchanged(n) ==
    IF n = 0 THEN {InitialTiles}
    ELSE LET S == Exchanged(n - 1)
         IN  S \cup {Exchange(t, p, q) : t \in S, p \in Positions, q \in Positions}

\* a Board holding any of these layouts, about to be asked is_game_won()
InitWin ==
    /\ shuffle_min = SHUFFLE
    /\ tiles \in Exchanged(MaxSwaps)
    /\ blank_xy = CHOOSE xy \in Positions : tiles[xy] = BLANK
    /\ previous_blank_xy = None
    /\ moves_nb = 0
    /\ pc = "is_game_won"
    /\ running = TRUE
    /\ do_render = TRUE
    /\ command = None
    /\ game_won = FALSE
    /\ quit_fetched = FALSE
    /\ ticks = 0

\* the last two lines of Game.update on that board
IsGameWon ==
    /\ pc = "is_game_won"
    /\ game_won' = (IF is_game_won(tiles) THEN TRUE ELSE game_won)
    /\ pc' = "is_game_won_done"
    /\ UNCHANGED <<shuffle_min, quit_fetched, board_vars, shuffle_locals, running, do_render,
                   command, ticks>>

NextWin == IsGameWon

SpecWin == InitWin /\ [][NextWin]_vars

\* ------------------------------------------------------------------ claims
Abs(n) == IF n < 0 THEN -n ELSE n

Manhattan(p, q) == Abs(p[1] - q[1]) + Abs(p[2] - q[2])

\* the cells next to b on the grid, from the geometry alone
Neighbours(b) == {xy \in Positions : Manhattan(xy, b) = 1}

Elements(list) == {list[i] : i \in 1 .. Len(list)}

\* C1: in every reachable state tiles is a total mapping from the N*N
\* positions onto {0..N*N-1}, no identifier twice and none missing
TilesBijection ==
    /\ DOMAIN tiles = Positions
    /\ {tiles[xy] : xy \in Positions} = 0 .. BLANK
    /\ \A p \in Positions, q \in Positions : tiles[p] = tiles[q] => p = q

\* C1 witness: the shuffle is over and an accepted player move has been applied
PlayerMoveApplied ==
    /\ pc = "render"
    /\ command = blank_xy
    /\ tiles # InitialTiles

\* C2: in every reachable state blank_xy holds the blank identifier and is
\* the only position that does
BlankTracked ==
    /\ blank_xy \in Positions
    /\ tiles[blank_xy] = BLANK
    /\ \A xy \in Positions : tiles[xy] = BLANK => xy = blank_xy

\* C2 witness: the shuffle has moved the blank away from its corner
BlankMovedByShuffle ==
    /\ pc = "shuffle"
    /\ moves_nb > 0
    /\ blank_xy # Corner

\* C3: update applies the command with move_tile if and only if it is in
\* get_valid_moves(); any other command (None, off the grid, the blank's own
\* cell, a cell not next to the blank) changes neither tiles nor blank_xy,
\* and update completes
MoveAcceptance ==
    [][pc = "update" =>
        /\ pc' = "render"
        /\ IF InList(command, get_valid_moves(blank_xy))
           THEN /\ command \in Neighbours(blank_xy)
                /\ tiles' = move_tile(tiles, blank_xy, command).tiles
                /\ blank_xy' = command
           ELSE /\ command \notin Neighbours(blank_xy)
                /\ UNCHANGED <<tiles, blank_xy>>]_vars

\* C3 witness: update has run on a click that fell on the grid but not next
\* to the blank
NonAdjacentClickIgnored ==
    /\ pc = "render"
    /\ command \in Positions
    /\ Manhattan(command, blank_xy) > 1

\* C4: when Board() returns, shuffle has counted at least SHUFFLE moves and
\* the blank is at (N-1, N-1); the board handed to play starts there
ShufflePostcondition ==
    /\ pc = "board_ready" => moves_nb >= shuffle_min /\ blank_xy = Corner
    /\ (pc \in {"intro", "event_get"} /\ ticks = 0) => blank_xy = Corner

\* C4 witness: Board() has returned after more moves than the minimum
ShuffleWentBeyondMinimum ==
    /\ pc = "board_ready"
    /\ moves_nb > shuffle_min

\* C5: is_game_won() is false for every Board the constructor returns
ConstructedBoardUnsolved ==
    pc = "board_ready" => ~is_game_won(tiles)

\* the row-major sequence of tiles, index k holding tiles[(k mod N, k div N)]
RowMajor(t, k) == t[<<k % TILES_PER_SIDE, k \div TILES_PER_SIDE>>]

\* the parity of the permutation, as the parity of its number of inversions
PermutationParity(t) ==
    Cardinality({ij \in (0 .. BLANK) \X (0 .. BLANK) :
                    ij[1] < ij[2] /\ RowMajor(t, ij[1]) > RowMajor(t, ij[2])}) % 2

\* C6: the parity of the permutation tiles applies to the row-major
\* positions equals the parity of the blank's Manhattan distance from
\* (N-1, N-1); with the blank at the corner the layout is an even permutation
SolvabilityParity ==
    /\ PermutationParity(tiles) = Manhattan(blank_xy, Corner) % 2
    /\ pc = "board_ready" => PermutationParity(tiles) = 0

\* C6 witness: in play, the blank an odd number of cells away from the corner
OddLayoutInPlay ==
    /\ pc = "render"
    /\ Manhattan(blank_xy, Corner) % 2 = 1
    /\ PermutationParity(tiles) = 1

\* C7: get_valid_moves() lists exactly the cells of the grid next to the
\* blank, none twice: 2 at a corner, 3 on an edge, 4 inside
ValidMovesExact ==
    LET valid_moves == get_valid_moves(blank_xy)
        on_edge_x == blank_xy[1] \in {0, TILES_PER_SIDE - 1}
        on_edge_y == blank_xy[2] \in {0, TILES_PER_SIDE - 1}
    IN  /\ Elements(valid_moves) = Neighbours(blank_xy)
        /\ Len(valid_moves) = Cardinality(Elements(valid_moves))
        /\ blank_xy \notin Elements(valid_moves)
        /\ Elements(valid_moves) \subseteq Positions
        /\ Len(valid_moves) = (IF on_edge_x /\ on_edge_y THEN 2
                               ELSE IF on_edge_x \/ on_edge_y THEN 3
                               ELSE 4)

\* C7 witness: the blank inside the grid, with four valid moves
BlankInside ==
    /\ blank_xy[1] \notin {0, TILES_PER_SIDE - 1}
    /\ blank_xy[2] \notin {0, TILES_PER_SIDE - 1}
    /\ Len(get_valid_moves(blank_xy)) = 4

\* C8: every step that moves the blank, in shuffle and in update, is exactly
\* a swap: the tile that was at the blank's new position is at its old one,
\* the new position holds the blank, and no other position changes
MoveTileIsSwap ==
    [][blank_xy' # blank_xy =>
        /\ blank_xy' \in Neighbours(blank_xy)
        /\ tiles'[blank_xy] = tiles[blank_xy']
        /\ tiles'[blank_xy'] = BLANK
        /\ \A xy \in Positions \ {blank_xy, blank_xy'} : tiles'[xy] = tiles[xy]]_vars

\* C8 witness: the scenario of the specification, move_tile((N-2, N-1)) on
\* the solved layout ((1,2) on 3x3: tiles[(2,2)] = 7, tiles[(1,2)] = 8)
SwapScenario ==
    /\ moves_nb = 1
    /\ blank_xy = <<TILES_PER_SIDE - 2, TILES_PER_SIDE - 1>>
    /\ tiles[Corner] = BLANK - 1
    /\ tiles[<<TILES_PER_SIDE - 2, TILES_PER_SIDE - 1>>] = BLANK
    /\ \A xy \in Positions \ {Corner, blank_xy} : tiles[xy] = InitialTiles[xy]

\* C9: from every reachable board, for every p in get_valid_moves(),
\* move_tile(p) then move_tile(old blank) gives back tiles and blank_xy, and
\* the old blank is in get_valid_moves() after the first move
MoveReversible ==
    \A p \in Elements(get_valid_moves(blank_xy)) :
        LET there == move_tile(tiles, blank_xy, p)
            back == move_tile(there.tiles, there.blank_xy, blank_xy)
        IN  /\ InList(blank_xy, get_valid_moves(there.blank_xy))
            /\ back.tiles = tiles
            /\ back.blank_xy = blank_xy

\* C9 witness: a board constructed solved, the player moved a tile and moved
\* it back with the click on the corner accepted, and the board is solved again
MoveUndoneByPlayer ==
    /\ pc = "render"
    /\ ticks = 2
    /\ command = Corner
    /\ blank_xy = Corner
    /\ tiles = InitialTiles

\* C10: is_game_won() is true exactly when tiles[(col,row)] = row*N + col at
\* every position: true for the solved layout, false for every layout
\* obtained from it by exchanging positions
WinDetectionExact ==
    pc = "is_game_won_done" =>
        (game_won <=> \A xy \in Positions : tiles[xy] = xy[2] * TILES_PER_SIDE + xy[1])

\* C10 witness: is_game_won() has answered false on a layout that differs
\* from the solved one at two positions only
SingleSwapNotWon ==
    /\ pc = "is_game_won_done"
    /\ ~game_won
    /\ Cardinality({xy \in Positions : tiles[xy] # InitialTiles[xy]}) = 2

\* cap on the moves, beyond those the minimum still asks for, within which
\* a way out of the shuffle loop is looked for
MaxDetour == 8

\* the shuffle loop, from the loop test with the blank at b, its previous
\* position prev and the counter at m, can reach its exit within budget
\* iterations (the layout plays no part in the loop's tests and choices)
RECURSIVE CanLeaveLoop(_, _, _, _)
CanLeaveLoop(b, prev, m, budget) ==
    \/ ~shuffle_continues(m, b)
    \/ /\ budget > 0
       /\ LET candidates == shuffle_candidates(b, prev)
          IN  \E i \in 1 .. Len(candidates) :
                CanLeaveLoop(candidates[i], b, m + 1, budget - 1)

\* moves the minimum still asks for
MovesOwed == IF moves_nb < shuffle_min THEN shuffle_min - moves_nb ELSE 0

\* C11: from every state reachable inside the shuffle loop, a state with the
\* counter at SHUFFLE or more and the blank at (N-1, N-1) can be reached by
\* iterations of the loop: the loop is never trapped
LoopNeverTrapped ==
    pc = "shuffle" =>
        CanLeaveLoop(blank_xy, previous_blank_xy, moves_nb, MovesOwed + MaxDetour)

\* C11 witness: the minimum is reached, the blank is away from the corner
\* and the loop goes on
MinimumReachedAwayFromCorner ==
    /\ pc = "shuffle"
    /\ shuffle_min > 0
    /\ moves_nb >= shuffle_min
    /\ blank_xy # Corner

\* C12: in every shuffle iteration after the first the position chosen is
\* not the one the blank had before the previous move
NoImmediateUndo ==
    [][(pc = "shuffle" /\ pc' = "shuffle" /\ moves_nb >= 1 /\ moves_nb' = moves_nb + 1) =>
        /\ blank_xy' # previous_blank_xy
        /\ previous_blank_xy' = blank_xy]_vars

\* C12 witness: the walk has turned a corner of the grid, where the only
\* other neighbour is the cell it came from
WalkPastGridCorner ==
    /\ pc = "shuffle"
    /\ moves_nb >= 3
    /\ previous_blank_xy = <<0, TILES_PER_SIDE - 1>>
    /\ blank_xy = <<0, TILES_PER_SIDE - 2>>

\* C13: at every test of the shuffle loop the candidates left are not
\* empty and random.choice does not fail: 2 at the start, 1 at a corner
\* reached by a step, 2 or more on an edge or inside
CandidatesNeverEmpty ==
    /\ pc # "IndexError"
    /\ pc = "shuffle" =>
        LET candidates == shuffle_candidates(blank_xy, previous_blank_xy)
            at_corner == /\ blank_xy[1] \in {0, TILES_PER_SIDE - 1}
                         /\ blank_xy[2] \in {0, TILES_PER_SIDE - 1}
        IN  /\ Len(candidates) >= 1
            /\ (at_corner /\ moves_nb >= 1) => Len(candidates) = 1
            /\ (at_corner /\ moves_nb = 0) => Len(candidates) = 2
            /\ ~at_corner => Len(candidates) >= 2

\* C13 witness: the walk stands on a corner it has reached by a step, with
\* one candidate left
OneCandidateAtCorner ==
    /\ pc = "shuffle"
    /\ moves_nb >= 1
    /\ blank_xy = <<0, 0>>
    /\ Len(shuffle_candidates(blank_xy, previous_blank_xy)) = 1

\* the boards Board() returns have the blank at the corner and are an even
\* permutation of the N*N identifiers
ShuffledBoard(t, b) ==
    /\ b = Corner
    /\ t[b] = BLANK
    /\ {t[xy] : xy \in Positions} = 0 .. BLANK
    /\ PermutationParity(t) = 0

\* C14: on the game-over screen a click replaces the board by a newly
\* constructed one, resets game_won and ends the screen, and play resumes
\* if the game is still running; a QUIT without a click stops the game and
\* leaves the board as it is; a batch with neither changes nothing
ReplayLifecycle ==
    [][pc = "game_over" =>
        /\ ticks > 0
        /\ ticks' = 0 =>
            /\ ShuffledBoard(tiles', blank_xy')
            /\ ~game_won'
            /\ pc' = "event_get"
            /\ running' => (running /\ do_render')
        /\ ticks' # 0 =>
            /\ UNCHANGED <<tiles, blank_xy, game_won>>
            /\ running' # running =>
                (~running' /\ ~do_render' /\ pc' = "event_get")
            /\ (running' = running /\ do_render' = do_render) =>
                pc' = "game_over"]_vars

\* C14 witness: after a win and a click the game is back in main's loop on
\* a new board that is not solved
ReplayStarted ==
    /\ pc = "event_get"
    /\ running
    /\ ticks = 0
    /\ ~game_won
    /\ command # None
    /\ tiles # InitialTiles

\* C15: shuffle makes no move once the counter is at SHUFFLE or more with
\* the blank at the corner, and returns only then: the number of moves is
\* the least k >= SHUFFLE with the blank at the corner after k steps
StopsAtFirstOpportunity ==
    [][pc = "shuffle" =>
        IF moves_nb >= shuffle_min /\ blank_xy = Corner
        THEN pc' = "board_ready" /\ UNCHANGED <<tiles, blank_xy, moves_nb>>
        ELSE pc' = "shuffle" /\ moves_nb' = moves_nb + 1]_vars

\* C15 witness: Board() has returned two moves after the minimum, the blank
\* having been away from the corner when the minimum was reached
ReturnedTwoMovesLate ==
    /\ pc = "board_ready"
    /\ shuffle_min > 0
    /\ moves_nb = shuffle_min + 2

\* the board is in the solved layout
Solved == \A xy \in Positions : tiles[xy] = xy[2] * TILES_PER_SIDE + xy[1]

\* C16: at the end of every update game_won is true exactly when the board
\* is solved; the game-over screen shows only on a solved board, and in
\* main's loop the flag is never true on an unsolved board
WinFlagExact ==
    /\ pc = "render" => (game_won <=> Solved)
    /\ pc = "game_over" => (game_won /\ Solved)
    /\ pc \in {"event_get", "update"} => (game_won => Solved)

\* C16 witness: the move of this tick has solved the board and the flag is up
SolvedByThisMove ==
    /\ pc = "render"
    /\ command = blank_xy
    /\ Solved
    /\ game_won

\* C17: with SHUFFLE at 0 Board() returns without a move: the blank at
\* (N-1, N-1) and tiles the initial solved layout, a bijection
ZeroShuffleIsIdentity ==
    (shuffle_min = 0 /\ pc = "board_ready") =>
        /\ moves_nb = 0
        /\ blank_xy = Corner
        /\ tiles = InitialTiles
        /\ {tiles[xy] : xy \in Positions} = 0 .. BLANK

\* C17 witness: Board() has returned under SHUFFLE = 0
ZeroShuffleReturned ==
    /\ shuffle_min = 0
    /\ pc = "board_ready"

\* C18: throughout shuffle the counter has the parity of the blank's
\* Manhattan distance from (N-1, N-1); the number of moves at the return is
\* even, hence at least SHUFFLE + 1 for an odd SHUFFLE
MoveCountParity ==
    /\ pc \in {"shuffle", "board_ready"} =>
        moves_nb % 2 = Manhattan(blank_xy, Corner) % 2
    /\ pc = "board_ready" =>
        /\ moves_nb % 2 = 0
        /\ shuffle_min % 2 = 1 => moves_nb >= shuffle_min + 1

\* C18 witness: Board() has returned under an odd SHUFFLE, one move above it
OddMinimumExceeded ==
    /\ pc = "board_ready"
    /\ shuffle_min % 2 = 1
    /\ moves_nb = shuffle_min + 1

\* C19: whenever the batch event_get fetched held a QUIT or an ESCAPE key
\* press, running is false when event_get returns
QuitNeverLost ==
    (pc = "update" /\ quit_fetched) => ~running

====
